---- MODULE Spec2Model ----
(***************************************************************************)
(* Model of src/main.py, the "Madox DB Proxy": the /query handler          *)
(* run_coded_query (per-identity lock, audit enqueue, pooled connection,   *)
(* execute, commit, cleanup), the lock registry get_user_lock, the audit   *)
(* worker thread log_worker, the shutdown hook shutdown_event, and the     *)
(* routes' key test verify_api_key and health_check.                       *)
(*                                                                         *)
(* Request handlers are modelled as concurrent processes ("slots") whose   *)
(* steps interleave with each other, with the worker thread and with the   *)
(* shutdown hook.  The libraries the program calls (mysql.connector,       *)
(* gspread) are modelled by their outcomes: every call that can raise      *)
(* either succeeds or raises.                                              *)
(***************************************************************************)
EXTENDS Integers, Sequences, FiniteSets, TLC

\* ---------------------------------------------------------------- bounds
NumSlots == 2        \* request handlers that can be in flight together
NumIdent == 2        \* distinct user_id values
MaxRequests == 2     \* requests served in one run
MaxAttempts == 3     \* the count of append attempts saturates here
MaxKeyLen == 2       \* longest API key text, configured or sent

\* ------------------------------------------------------ program constants
PoolSize == 5        \* "pool_size": 5

Slots == 1..NumSlots
Identities == 1..NumIdent

\* ------------------------------------------------------------------ text
\* Statement templates are sequences of one-character strings.
Whitespace == {" ", "\t", "\n"}

LowerChar(c) ==
    CASE c = "S" -> "s" [] c = "E" -> "e" [] c = "L" -> "l"
      [] c = "C" -> "c" [] c = "T" -> "t" [] c = "D" -> "d"
      [] c = "U" -> "u" [] c = "P" -> "p" [] c = "A" -> "a"
      [] OTHER -> c

Lower(s) == [i \in 1..Len(s) |-> LowerChar(s[i])]

RECURSIVE LStrip(_)
LStrip(s) == IF s # <<>> /\ Head(s) \in Whitespace THEN LStrip(Tail(s)) ELSE s

RECURSIVE RStrip(_)
RStrip(s) ==
    IF s # <<>> /\ s[Len(s)] \in Whitespace
    THEN RStrip(SubSeq(s, 1, Len(s) - 1)) ELSE s

Strip(s) == RStrip(LStrip(s))

StartsWith(s, p) == Len(s) >= Len(p) /\ SubSeq(s, 1, Len(p)) = p

KwSelect == <<"s", "e", "l", "e", "c", "t">>

\* sql_template.strip().lower().startswith("select")
IsSelect(sql_template) == StartsWith(Lower(Strip(sql_template)), KwSelect)

\* ------------------------------------------------------------- registry
\* queries.json as loaded: a few templates that exercise the classifier.
LoadedQueries ==
    [c \in {"001", "Q3"} |->
        CASE c = "001" -> <<" ", "S", "e", "L", "E", "C", "T", " ", "1">>
          [] c = "Q3" -> <<"\n", "D", "e", "l", "e", "t", "e", " ", "t", " ">>]

\* json.load raised: QUERY_DICT = {}
EmptyQueries == [c \in {} |-> <<>>]

\* query_code values a client sends ("Q9" is in no registry)
Codes == {"001", "Q3", "Q9"}

\* -------------------------------------------------------------- API keys
\* An optional string: os.getenv and headers.get return None or a text.
None == [set |-> FALSE, text |-> <<>>]
Str(t) == [set |-> TRUE, text |-> t]

KeyChars == {"k", "x", " "}
KeyTexts == UNION {[1..n -> KeyChars] : n \in 0..MaxKeyLen}
KeyValues == {None} \cup {Str(t) : t \in KeyTexts}

\* the key the deployment configures when requests are to be served
ConfiguredKey == Str(<<"k">>)

\* ----------------------------------------------------------------- state
VARIABLES
    API_KEY,              \* os.getenv("API_KEY")
    api_pc,               \* position of the HTTP exchange at the routes
    api_req,              \* path and x-api-key header of that exchange
    api_resp,             \* its response
    QUERY_DICT,           \* code -> template, fixed after load
    connection_pool,      \* TRUE: pool created; FALSE: connection_pool = None
    pool_free,            \* connections waiting in the pool's queue
    user_locks,           \* user_id -> lock object (0: no entry)
    locks,                \* user_id -> the lock objects created for it -> locked
    dict_lock,            \* slot holding dict_lock (0: free)
    pc,                   \* slot -> position in run_coded_query
    req,                  \* slot -> the request it serves
    user_lock,            \* slot -> local user_lock (0: unbound)
    conn,                 \* slot -> 'conn' in locals()
    cursor,               \* slot -> 'cursor' in locals()
    resp,                 \* slot -> response of the request
    executed,             \* slot -> cursor.execute was called
    committed,            \* slot -> conn.commit returned
    served,               \* requests begun so far
    log_queue,            \* queue.Queue: the queued records
    unfinished_tasks,     \* log_queue.unfinished_tasks
    stop_logging_thread,  \* threading.Event
    wpc,                  \* position of log_worker
    log_item,             \* log_worker's local log_item (NoItem: unbound)
    sheet,                \* records appended to the sheet
    enqueued,             \* records ever put by a request
    spc                   \* position of shutdown_event

reqVars == <<pc, req, user_lock, conn, cursor, resp, executed, committed, served>>
lockVars == <<user_locks, locks, dict_lock>>
poolVars == <<connection_pool, pool_free>>
queueVars == <<log_queue, unfinished_tasks, enqueued>>
workerVars == <<wpc, log_item, sheet>>
shutVars == <<stop_logging_thread, spc>>
loadVars == <<QUERY_DICT, API_KEY>>
apiVars == <<api_pc, api_req, api_resp>>

vars == <<QUERY_DICT, connection_pool, pool_free, user_locks, locks, dict_lock,
          pc, req, user_lock, conn, cursor, resp, executed, committed, served,
          log_queue, unfinished_tasks, stop_logging_thread, wpc, log_item,
          sheet, enqueued, spc, API_KEY, api_pc, api_req, api_resp>>

NoReq == [user_id |-> 0, query_code |-> ""]
\* A record is (user_id, sql_template, params) in the program.  Here it is the
\* number of the put that created it, with the count of append attempts made
\* on it so far (saturating at MaxAttempts).
Record(n) == [id |-> n, tries |-> 0]
NoItem == [id |-> 0, tries |-> 0]
NoResp == [status |-> 0, body |-> "", detail |-> <<>>]
NoApiReq == [path |-> "", sent_key |-> None]

\* the module has been imported: configuration read, registry loaded, pool
\* created or not, worker thread started, no request yet
Startup ==
    /\ API_KEY \in KeyValues
    /\ api_pc = "idle"
    /\ api_req = NoApiReq
    /\ api_resp = NoResp
    /\ QUERY_DICT \in {LoadedQueries, EmptyQueries}
    /\ connection_pool \in BOOLEAN
    /\ pool_free = IF connection_pool THEN PoolSize ELSE 0
    /\ user_locks = [u \in Identities |-> 0]
    /\ locks = [u \in Identities |-> <<>>]
    /\ dict_lock = 0
    /\ pc = [r \in Slots |-> "idle"]
    /\ req = [r \in Slots |-> NoReq]
    /\ user_lock = [r \in Slots |-> 0]
    /\ conn = [r \in Slots |-> FALSE]
    /\ cursor = [r \in Slots |-> FALSE]
    /\ resp = [r \in Slots |-> NoResp]
    /\ executed = [r \in Slots |-> FALSE]
    /\ committed = [r \in Slots |-> FALSE]
    /\ served = 0
    /\ log_queue = <<>>
    /\ unfinished_tasks = 0
    /\ stop_logging_thread = FALSE
    /\ wpc = "while"
    /\ log_item = NoItem
    /\ sheet = {}
    /\ enqueued = {}
    /\ spc = "idle"

\* The requests that reach run_coded_query are those verify_api_key let
\* through, which takes a configured key.
Init == Startup /\ API_KEY = ConfiguredKey

\* ------------------------------------------------------------- responses
Success(kind) == [status |-> 200, body |-> kind, detail |-> <<>>]
HTTPException(status, detail) == [status |-> status, body |-> "error", detail |-> detail]
\* an exception that is no HTTPException leaves the handler: the framework's 500
Unhandled == [status |-> 500, body |-> "error", detail |-> <<"Internal Server Error">>]
\* str(err) of the MySQLError a driver call raises: each call fails with a
\* message of its own
ErrText(call) ==
    CASE call = "get_connection" -> "Failed getting connection; pool exhausted"
      [] call = "cursor" -> "MySQL Connection not available"
      [] call = "execute" -> "Table 'madox.t' doesn't exist"
      [] call = "fetchall" -> "Lost connection to MySQL server during query"
      [] call = "commit" -> "Unread result found"

\* except MySQLError as err: detail=f"Database query error: {err}"
DatabaseError(call) == HTTPException(500, <<"Database query error: ", ErrText(call)>>)

\* raise / return inside the try block: control passes to the finally block
Finally(r, response) ==
    /\ resp' = [resp EXCEPT ![r] = response]
    /\ pc' = [pc EXCEPT ![r] = "cleanup"]

\* an exception raised inside the finally block leaves the handler at once
Escape(r) ==
    /\ resp' = [resp EXCEPT ![r] = Unhandled]
    /\ pc' = [pc EXCEPT ![r] = "done"]

\* ------------------------------------------------------------- /query
\* The server runs shutdown_event only after the requests in flight have
\* ended, and takes no request once it is shutting down.  A request goes to
\* the first free handler.
Begin(r) ==
    /\ pc[r] = "idle"
    /\ \A q \in Slots : q < r => pc[q] # "idle"
    /\ spc = "idle"
    /\ served < MaxRequests
    /\ \E u \in Identities, c \in Codes :
          req' = [req EXCEPT ![r] = [user_id |-> u, query_code |-> c]]
    /\ served' = served + 1
    /\ pc' = [pc EXCEPT ![r] = "get_user_lock"]
    /\ UNCHANGED <<loadVars, apiVars, poolVars, lockVars, user_lock, conn, cursor, resp,
                   executed, committed, queueVars, workerVars, shutVars>>

\* get_user_lock without the guard: the with block never waits
DictLockFree_Unguarded == TRUE

\* with dict_lock: the guard is free
DictLockFree == dict_lock = 0

\* with dict_lock: if user_id not in user_locks
EnterUserLocks(r) ==
    /\ pc[r] = "get_user_lock"
    /\ DictLockFree
    /\ dict_lock' = r
    /\ pc' = [pc EXCEPT ![r] =
                IF user_locks[req[r].user_id] = 0 THEN "create" ELSE "return"]
    /\ UNCHANGED <<loadVars, apiVars, poolVars, user_locks, locks, req, user_lock, conn,
                   cursor, resp, executed, committed, served, queueVars,
                   workerVars, shutVars>>

\* user_locks[user_id] = Lock(); return user_locks[user_id]
CreateUserLock(r) ==
    /\ pc[r] = "create"
    /\ locks' = [locks EXCEPT ![req[r].user_id] = Append(@, FALSE)]
    /\ user_locks' = [user_locks EXCEPT ![req[r].user_id] = Len(locks[req[r].user_id]) + 1]
    /\ user_lock' = [user_lock EXCEPT ![r] = Len(locks[req[r].user_id]) + 1]
    /\ dict_lock' = IF dict_lock = r THEN 0 ELSE dict_lock
    /\ pc' = [pc EXCEPT ![r] = "acquire"]
    /\ UNCHANGED <<loadVars, apiVars, poolVars, req, conn, cursor, resp, executed,
                   committed, served, queueVars, workerVars, shutVars>>

\* return user_locks[user_id] of an entry that was there, leaving the with block
ReturnUserLock(r) ==
    /\ pc[r] = "return"
    /\ user_lock' = [user_lock EXCEPT ![r] = user_locks[req[r].user_id]]
    /\ dict_lock' = IF dict_lock = r THEN 0 ELSE dict_lock
    /\ pc' = [pc EXCEPT ![r] = "acquire"]
    /\ UNCHANGED <<loadVars, apiVars, poolVars, user_locks, locks, req, conn, cursor,
                   resp, executed, committed, served, queueVars, workerVars,
                   shutVars>>

\* an acquire() that never waits
LockFree_NoWait(u, l) == TRUE

\* one lock shared by all identities: acquire() waits while any is locked
LockFree_Global(u, l) ==
    \A v \in Identities : \A i \in 1..Len(locks[v]) : ~locks[v][i]

\* user_lock.acquire() can return: the lock object is free
LockFree(u, l) == ~locks[u][l]

Acquire(r) ==
    /\ pc[r] = "acquire"
    /\ LockFree(req[r].user_id, user_lock[r])
    /\ locks' = [locks EXCEPT ![req[r].user_id][user_lock[r]] = TRUE]
    /\ pc' = [pc EXCEPT ![r] = "lookup"]
    /\ UNCHANGED <<loadVars, apiVars, poolVars, user_locks, dict_lock, req, user_lock,
                   conn, cursor, resp, executed, committed, served, queueVars,
                   workerVars, shutVars>>

\* a queue.Queue(maxsize=1): put waits while the queue is full
QueueHasRoom_Bounded == Len(log_queue) < 1

\* log_queue.put(item) can return: queue.Queue() has no maxsize, never full
QueueHasRoom == TRUE

\* log_queue.put(item)
QueuePut(item) ==
    /\ QueueHasRoom
    /\ log_queue' = Append(log_queue, item)
    /\ unfinished_tasks' = unfinished_tasks + 1

\* a handler without the registry test: every code is taken as known
Lookup_NoCheck(r) ==
    /\ pc[r] = "lookup"
    /\ QueuePut(Record(Cardinality(enqueued) + 1))
    /\ enqueued' = enqueued \cup {Cardinality(enqueued) + 1}
    /\ pc' = [pc EXCEPT ![r] = "pool"]
    /\ UNCHANGED <<loadVars, apiVars, poolVars, lockVars, req, user_lock, conn, cursor,
                   resp, executed, committed, served, workerVars, shutVars>>

\* a handler that does not put an audit record
Lookup_NoAudit(r) ==
    /\ pc[r] = "lookup"
    /\ IF req[r].query_code \notin DOMAIN QUERY_DICT
       THEN Finally(r, HTTPException(400, <<"Unknown query code">>))
       ELSE /\ pc' = [pc EXCEPT ![r] = "pool"]
            /\ UNCHANGED resp
    /\ UNCHANGED <<loadVars, apiVars, poolVars, lockVars, req, user_lock, conn, cursor,
                   executed, committed, served, queueVars, workerVars, shutVars>>

\* if data.query_code not in QUERY_DICT: raise HTTPException(400)
\* sql_template = QUERY_DICT[data.query_code]; log_queue.put(...)
Lookup(r) ==
    /\ pc[r] = "lookup"
    /\ IF req[r].query_code \notin DOMAIN QUERY_DICT
       THEN /\ Finally(r, HTTPException(400, <<"Unknown query code">>))
            /\ UNCHANGED queueVars
       ELSE /\ QueuePut(Record(Cardinality(enqueued) + 1))
            /\ enqueued' = enqueued \cup {Cardinality(enqueued) + 1}
            /\ pc' = [pc EXCEPT ![r] = "pool"]
            /\ UNCHANGED resp
    /\ UNCHANGED <<loadVars, apiVars, poolVars, lockVars, req, user_lock, conn, cursor,
                   executed, committed, served, workerVars, shutVars>>

\* the outcome of asking the pool for a connection:
\* "ok", or the PoolError / reconnect error that get_connection raises
GetConnectionOutcomes ==
    IF pool_free > 0 THEN {"ok", "error"} ELSE {"error"}

\* if not connection_pool: raise HTTPException(503)
\* conn = connection_pool.get_connection()
GetConnection(r) ==
    /\ pc[r] = "pool"
    /\ IF ~connection_pool
       THEN /\ Finally(r, HTTPException(503, <<"Database pool not initialized.">>))
            /\ UNCHANGED <<conn, pool_free>>
       ELSE \E o \in GetConnectionOutcomes :
              IF o = "ok"
              THEN /\ conn' = [conn EXCEPT ![r] = TRUE]
                   /\ pool_free' = pool_free - 1
                   /\ pc' = [pc EXCEPT ![r] = "execute"]
                   /\ UNCHANGED resp
              ELSE /\ Finally(r, DatabaseError("get_connection"))
                   /\ UNCHANGED <<conn, pool_free>>
    /\ UNCHANGED <<loadVars, apiVars, connection_pool, lockVars, req, user_lock, cursor,
                   executed, committed, served, queueVars, workerVars, shutVars>>

\* cursor = conn.cursor(dictionary=True)
\* cursor.execute(sql_template, tuple(data.params))
Execute(r) ==
    /\ pc[r] = "execute"
    /\ \/ /\ cursor' = [cursor EXCEPT ![r] = TRUE]      \* both calls return
          /\ executed' = [executed EXCEPT ![r] = TRUE]
          /\ pc' = [pc EXCEPT ![r] = "classify"]
          /\ UNCHANGED resp
       \/ /\ cursor' = [cursor EXCEPT ![r] = TRUE]      \* execute raises
          /\ executed' = [executed EXCEPT ![r] = TRUE]
          /\ Finally(r, DatabaseError("execute"))
       \/ /\ Finally(r, DatabaseError("cursor"))       \* conn.cursor raises
          /\ UNCHANGED <<cursor, executed>>
    /\ UNCHANGED <<loadVars, apiVars, poolVars, lockVars, req, user_lock, conn,
                   committed, served, queueVars, workerVars, shutVars>>

\* a handler that commits after every statement, whatever its keyword
Classify_AlwaysCommit(r) ==
    /\ pc[r] = "classify"
    /\ \/ /\ committed' = [committed EXCEPT ![r] = TRUE]
          /\ Finally(r, Success(IF IsSelect(QUERY_DICT[req[r].query_code])
                                THEN "data" ELSE "rows_affected"))
       \/ /\ Finally(r, DatabaseError("commit"))
          /\ UNCHANGED committed
    /\ UNCHANGED <<loadVars, apiVars, poolVars, lockVars, req, user_lock, conn, cursor,
                   executed, served, queueVars, workerVars, shutVars>>

\* if sql_template.strip().lower().startswith("select"): fetchall, return data
\* else: conn.commit(), return rows_affected
Classify(r) ==
    /\ pc[r] = "classify"
    /\ IF IsSelect(QUERY_DICT[req[r].query_code])
       THEN /\ \/ Finally(r, Success("data"))
               \/ Finally(r, DatabaseError("fetchall"))
            /\ UNCHANGED committed
       ELSE \/ /\ committed' = [committed EXCEPT ![r] = TRUE]
               /\ Finally(r, Success("rows_affected"))
            \/ /\ Finally(r, DatabaseError("commit"))
               /\ UNCHANGED committed
    /\ UNCHANGED <<loadVars, apiVars, poolVars, lockVars, req, user_lock, conn, cursor,
                   executed, served, queueVars, workerVars, shutVars>>

\* finally: if 'cursor' in locals(): cursor.close()
\*          if 'conn' in locals() and conn.is_connected(): conn.close()
\* conn.close() hands the pooled connection back to the pool.  Either call
\* can raise, and the rest of the finally block is then skipped; when
\* conn.close() raises the connection may or may not have been handed back.
Cleanup(r) ==
    /\ pc[r] = "cleanup"
    /\ \/ /\ conn[r]                         \* cursor closed, connection closed
          /\ pool_free' = pool_free + 1
          /\ pc' = [pc EXCEPT ![r] = "release"]
          /\ UNCHANGED resp
       \/ /\ conn[r]                         \* is_connected() is False
          /\ pc' = [pc EXCEPT ![r] = "release"]
          /\ UNCHANGED <<resp, pool_free>>
       \/ /\ ~conn[r] /\ ~cursor[r]          \* nothing to close
          /\ pc' = [pc EXCEPT ![r] = "release"]
          /\ UNCHANGED <<resp, pool_free>>
       \/ /\ cursor[r]                       \* cursor.close() raises
          /\ Escape(r)
          /\ UNCHANGED pool_free
       \/ /\ conn[r]                         \* conn.close() raises
          /\ pool_free' \in {pool_free, pool_free + 1}
          /\ Escape(r)
    /\ UNCHANGED <<loadVars, apiVars, connection_pool, lockVars, req, user_lock, conn,
                   cursor, executed, committed, served, queueVars, workerVars,
                   shutVars>>

\* finally: user_lock.release()
Release(r) ==
    /\ pc[r] = "release"
    /\ locks' = [locks EXCEPT ![req[r].user_id][user_lock[r]] = FALSE]
    /\ pc' = [pc EXCEPT ![r] = "done"]
    /\ UNCHANGED <<loadVars, apiVars, poolVars, user_locks, dict_lock, req, user_lock,
                   conn, cursor, resp, executed, committed, served, queueVars,
                   workerVars, shutVars>>

\* the response is sent and the handler's frame is dropped
Finish(r) ==
    /\ pc[r] = "done"
    /\ pc' = [pc EXCEPT ![r] = "idle"]
    /\ req' = [req EXCEPT ![r] = NoReq]
    /\ user_lock' = [user_lock EXCEPT ![r] = 0]
    /\ conn' = [conn EXCEPT ![r] = FALSE]
    /\ cursor' = [cursor EXCEPT ![r] = FALSE]
    /\ resp' = [resp EXCEPT ![r] = NoResp]
    /\ executed' = [executed EXCEPT ![r] = FALSE]
    /\ committed' = [committed EXCEPT ![r] = FALSE]
    /\ UNCHANGED <<loadVars, apiVars, poolVars, lockVars, served, queueVars, workerVars,
                   shutVars>>

\* ------------------------------------------------------------ log_worker
\* while not stop_logging_thread.is_set()
WorkerWhile ==
    /\ wpc = "while"
    /\ wpc' = IF stop_logging_thread THEN "exited" ELSE "get"
    /\ UNCHANGED <<loadVars, apiVars, poolVars, lockVars, reqVars, queueVars, log_item,
                   sheet, shutVars>>

\* log_item = log_queue.get(timeout=1); except queue.Empty: continue
\* On queue.Empty the loop test runs again: it ends the loop when the stop
\* signal is set, and otherwise the worker is back in the same get.
WorkerGet ==
    /\ wpc = "get"
    /\ IF log_queue # <<>>
       THEN /\ log_item' = Head(log_queue)
            /\ log_queue' = Tail(log_queue)
            /\ wpc' = "append"
       ELSE /\ stop_logging_thread
            /\ wpc' = "exited"
            /\ UNCHANGED <<log_item, log_queue>>
    /\ UNCHANGED <<loadVars, apiVars, poolVars, lockVars, reqVars, unfinished_tasks,
                   enqueued, sheet, shutVars>>

Bump(n) == IF n < MaxAttempts THEN n + 1 ELSE n

\* gspread.service_account / open / sheet.append_row: one append attempt,
\* which the sheet service accepts or fails
WorkerAppend ==
    /\ wpc = "append"
    /\ log_item' = [log_item EXCEPT !.tries = Bump(@)]
    /\ \/ /\ sheet' = sheet \cup {log_item.id}
          /\ wpc' = "task_done"
       \/ /\ wpc' = "sleep"           \* except Exception: logging.error
          /\ UNCHANGED sheet
    /\ UNCHANGED <<loadVars, apiVars, poolVars, lockVars, reqVars, queueVars, shutVars>>

\* an except block that logs and drops the record
AfterFailure_Drop(item) == UNCHANGED <<log_queue, unfinished_tasks>>

\* an except block that puts the record back twice
AfterFailure_Twice(item) ==
    /\ log_queue' = Append(Append(log_queue, item), item)
    /\ unfinished_tasks' = unfinished_tasks + 2

\* the except block after logging.error and time.sleep(2):
\* log_queue.put(log_item), whatever the number of attempts made
AfterFailure(item) == QueuePut(item)

WorkerRetry ==
    /\ wpc = "sleep"
    /\ AfterFailure(log_item)
    /\ wpc' = "task_done"
    /\ UNCHANGED <<loadVars, apiVars, poolVars, lockVars, reqVars, enqueued, log_item,
                   sheet, shutVars>>

\* finally: log_queue.task_done(); the next iteration rebinds log_item
WorkerTaskDone ==
    /\ wpc = "task_done"
    /\ unfinished_tasks' = unfinished_tasks - 1
    /\ log_item' = NoItem
    /\ wpc' = "while"
    /\ UNCHANGED <<loadVars, apiVars, poolVars, lockVars, reqVars, log_queue, enqueued,
                   sheet, shutVars>>

\* ---------------------------------------------------------- shutdown_event
\* stop_logging_thread.set()
ShutdownSet ==
    /\ spc = "idle"
    /\ \A r \in Slots : pc[r] = "idle"
    /\ stop_logging_thread' = TRUE
    /\ spc' = "join"
    /\ UNCHANGED <<loadVars, apiVars, poolVars, lockVars, reqVars, queueVars, workerVars>>

\* log_queue.join() returns when no task is unfinished
JoinReturns == unfinished_tasks = 0

ShutdownJoin ==
    /\ spc = "join"
    /\ JoinReturns
    /\ spc' = "returned"
    /\ UNCHANGED <<loadVars, apiVars, poolVars, lockVars, reqVars, queueVars, workerVars,
                   stop_logging_thread>>

\* ------------------------------------------------------------- the routes
\* One HTTP exchange at a time is followed from its arrival to the point
\* where verify_api_key has rejected it or let run_coded_query start, or
\* where health_check has answered.
Truthy(o) == o.set /\ o.text # <<>>

\* a comparison of the two keys as they are
Forbidden_Exact(api_key, sent_key) ==
    \/ ~Truthy(api_key)
    \/ ~Truthy(sent_key)
    \/ sent_key.text # api_key.text

\* if not API_KEY or not sent_key or sent_key.strip() != API_KEY.strip()
Forbidden(api_key, sent_key) ==
    \/ ~Truthy(api_key)
    \/ ~Truthy(sent_key)
    \/ Strip(sent_key.text) # Strip(api_key.text)

Paths == {"/query", "/health"}

\* a request arrives; /query runs the dependency verify_api_key first
Receive ==
    /\ api_pc = "idle"
    /\ \E p \in Paths, k \in KeyValues :
          /\ api_req' = [path |-> p, sent_key |-> k]
          /\ api_pc' = IF p = "/query" THEN "verify_api_key" ELSE "health_check"
    /\ UNCHANGED <<loadVars, api_resp, poolVars, lockVars, reqVars, queueVars,
                   workerVars, shutVars>>

\* sent_key = request.headers.get("x-api-key"); raise HTTPException(403) or
\* return, after which run_coded_query is called
VerifyApiKey ==
    /\ api_pc = "verify_api_key"
    /\ IF Forbidden(API_KEY, api_req.sent_key)
       THEN /\ api_resp' = HTTPException(403, <<"Forbidden: Invalid or missing API Key">>)
            /\ api_pc' = "sent"
       ELSE /\ api_pc' = "run_coded_query"
            /\ UNCHANGED api_resp
    /\ UNCHANGED <<loadVars, api_req, poolVars, lockVars, reqVars, queueVars,
                   workerVars, shutVars>>

\* return {"status": "ok", "active_logs": log_queue.qsize()}
HealthCheck ==
    /\ api_pc = "health_check"
    /\ api_resp' = [status |-> 200, body |-> "ok", active_logs |-> Len(log_queue)]
    /\ api_pc' = "sent"
    /\ UNCHANGED <<loadVars, api_req, poolVars, lockVars, reqVars, queueVars,
                   workerVars, shutVars>>

\* the exchange leaves the routes: answered, or handed to run_coded_query
Leave ==
    /\ api_pc \in {"sent", "run_coded_query"}
    /\ api_pc' = "idle"
    /\ api_req' = NoApiReq
    /\ api_resp' = NoResp
    /\ UNCHANGED <<loadVars, poolVars, lockVars, reqVars, queueVars, workerVars,
                   shutVars>>

Request(r) ==
    \/ Begin(r) \/ EnterUserLocks(r) \/ CreateUserLock(r) \/ ReturnUserLock(r)
    \/ Acquire(r) \/ Lookup(r) \/ GetConnection(r) \/ Execute(r) \/ Classify(r)
    \/ Cleanup(r) \/ Release(r) \/ Finish(r)

Worker == WorkerWhile \/ WorkerGet \/ WorkerAppend \/ WorkerRetry \/ WorkerTaskDone

Shutdown == ShutdownSet \/ ShutdownJoin

Next ==
    \/ \E r \in Slots : Request(r)
    \/ Worker
    \/ Shutdown

Spec == Init /\ [][Next]_vars

\* The routes alone, for every configured key and every header, with the
\* registry loaded and the pool created.
AuthInit == Startup /\ QUERY_DICT = LoadedQueries /\ connection_pool

AuthNext ==
    \/ Receive
    \/ VerifyApiKey
    \/ HealthCheck
    \/ Leave

AuthSpec == AuthInit /\ [][AuthNext]_vars

\* log_worker is a thread of its own: the scheduler runs it whenever it has
\* a step to take.
FairSpec == Spec /\ WF_vars(Worker)

TypeOK ==
    /\ pool_free \in 0..PoolSize
    /\ dict_lock \in 0..NumSlots
    /\ served \in 0..MaxRequests
    /\ unfinished_tasks \in Nat
    /\ \A r \in Slots : resp[r].status \in {0, 200, 400, 500, 503}

\* ------------------------------------------------------------ vocabulary
\* between user_lock.acquire() returning and user_lock.release()
LockedPcs == {"lookup", "pool", "execute", "classify", "cleanup", "release"}

\* between connection checkout and conn.close()
InDatabase(r) == conn[r] /\ pc[r] \in {"execute", "classify", "cleanup"}

SameIdentity(r, q) == r # q /\ req[r].user_id = req[q].user_id /\ req[r].user_id # 0

\* ------------------------------------------------------------------- C1
\* C1: of the requests of one identity at most one is past acquire() and
\* before release() at any time, so at most one is between connection
\* checkout and close; a request of the identity that is not that one has
\* taken no connection and executed nothing.
C1_OneRequestPerIdentity ==
    \A r, q \in Slots :
        SameIdentity(r, q) /\ pc[r] \in LockedPcs
            => /\ pc[q] \notin LockedPcs
               /\ ~InDatabase(q)
               /\ pc[q] # "done" => ~conn[q] /\ ~executed[q]

\* one request is inside its database work while another request of the
\* same identity waits in acquire()
C1_Witness ==
    \E r, q \in Slots :
        /\ SameIdentity(r, q)
        /\ pc[r] = "classify" /\ conn[r] /\ executed[r]
        /\ pc[q] = "acquire"

\* ------------------------------------------------------------------- C2
\* C2: when a request has ended, with whatever outcome, its identity's lock
\* is not left locked by it: the lock is free, or another request of the
\* identity that is now in its critical section has it.
C2_LockReleasedOnExit ==
    \A r \in Slots :
        pc[r] = "done" =>
            \/ LockFree(req[r].user_id, user_lock[r])
            \/ \E q \in Slots : /\ SameIdentity(r, q)
                                /\ user_lock[q] = user_lock[r]
                                /\ pc[q] \in LockedPcs

\* ------------------------------------------------------------------- C3
\* C3: shutdown always terminates.  While shutdown_event waits in
\* log_queue.join(), either the join can return or the worker, the only
\* thread that calls task_done, is still running; a state where the worker
\* has left its loop with tasks unfinished is a shutdown that waits forever.
C3_ShutdownTerminates ==
    spc = "join" => (JoinReturns \/ wpc # "exited")

\* ------------------------------------------------------------------- C4
\* C4: no record gets more than two append attempts (the first and one
\* retry), and a record that has failed twice is not put back on the queue.
C4_AtMostTwoAttempts ==
    /\ log_item.tries <= 2
    /\ \A i \in 1..Len(log_queue) : log_queue[i].tries < 2

\* ------------------------------------------------------------------- C5
\* C5: whenever no request is in flight, every connection of the pool is
\* back in the pool.
C5_ConnectionsReturned ==
    (connection_pool /\ \A r \in Slots : pc[r] = "idle") => pool_free = PoolSize

\* ------------------------------------------------------------------- C6
\* C6: the enqueue step of a request never waits: a request that has reached
\* the lookup-and-enqueue step can take it at once, whatever the worker is
\* doing and however often the sink has failed.
C6_EnqueueNeverBlocks ==
    \A r \in Slots : pc[r] = "lookup" => ENABLED Lookup(r)

\* a request has passed the enqueue step while the sink has failed every
\* attempt made so far and the worker is backing off
C6_Witness ==
    \E r \in Slots :
        /\ pc[r] = "pool"
        /\ wpc = "sleep" /\ log_item.tries >= 2
        /\ sheet = {}

\* ------------------------------------------------------------------- C7
\* C7: once shutdown_event has returned, every record enqueued before the
\* shutdown began is on the sheet, the queue is empty and the worker holds
\* no record.  (No request enqueues after the shutdown began.)
C7_ShutdownFlushes ==
    spc = "returned" =>
        /\ enqueued \subseteq sheet
        /\ log_queue = <<>>
        /\ log_item = NoItem

\* shutdown has returned after two records were enqueued, and both are on
\* the sheet
C7_Witness ==
    /\ spc = "returned"
    /\ Cardinality(enqueued) = 2
    /\ sheet = enqueued

C9_OneLockPerIdentity ==
    /\ [](\A u \in Identities :
            /\ Len(locks[u]) <= 1
            /\ user_locks[u] = Len(locks[u]))
    /\ [](\A r \in Slots :
            pc[r] \in LockedPcs \cup {"acquire"} =>
                /\ user_lock[r] # 0
                /\ user_lock[r] = user_locks[req[r].user_id])
    /\ [][\A u \in Identities :
            user_locks[u] # 0 => user_locks'[u] = user_locks[u]]_vars

\* two requests made their first calls for a new identity concurrently (one
\* waited for dict_lock while the other created the entry) and hold the
\* same lock object
C9_Witness ==
    \E r, q \in Slots :
        /\ SameIdentity(r, q)
        /\ pc[r] = "acquire" /\ pc[q] = "acquire"
        /\ user_lock[r] # 0 /\ user_lock[r] = user_lock[q]

\* ------------------------------------------------------------------ C10
KwDelete == <<"d", "e", "l", "e", "t", "e">>

\* the statement, trimmed and lower-cased, begins with 'delete'
IsDelete(sql_template) == StartsWith(Lower(Strip(sql_template)), KwDelete)

\* C10: a request whose statement, trimmed and lower-cased, begins with
\* 'delete' makes no database call: no connection is taken, nothing is
\* executed and nothing is committed for it.
C10_DeleteRejected ==
    \A r \in Slots :
        (/\ req[r].query_code \in DOMAIN QUERY_DICT
         /\ IsDelete(QUERY_DICT[req[r].query_code]))
            => ~conn[r] /\ ~executed[r] /\ ~committed[r]

\* ------------------------------------------------------------------ C11
\* C11: a request that could not obtain a database connection (the pool
\* was never created, or get_connection gave it none) is answered 503 and
\* has executed no statement.  Such a request is one whose code is in the
\* registry and which has reached the finally block with no connection.
C11_UnavailableIs503 ==
    \A r \in Slots :
        (/\ pc[r] \in {"cleanup", "release"}
         /\ req[r].query_code \in DOMAIN QUERY_DICT
         /\ ~conn[r])
            => resp[r].status = 503 /\ ~executed[r]

\* ------------------------------------------------------------------ C12
\* C12: a request whose query_code is not in the registry is answered 400
\* and touches no database: it takes no connection, executes and commits
\* nothing, and never reaches a database step.  With a registry that
\* failed to load this holds for every code.
C12_UnknownCodeRejected ==
    \A r \in Slots :
        (pc[r] # "idle" /\ req[r].query_code \notin DOMAIN QUERY_DICT)
            => /\ ~conn[r] /\ ~cursor[r] /\ ~executed[r] /\ ~committed[r]
               /\ pc[r] \notin {"pool", "execute", "classify"}
               /\ pc[r] \in {"cleanup", "release", "done"}
                      => resp[r] = HTTPException(400, <<"Unknown query code">>)
               /\ resp[r].status \in {0, 400}

\* the registry failed to load and a request for a code the registry file
\* defines has ended with 400
C12_Witness ==
    \E r \in Slots :
        /\ QUERY_DICT = EmptyQueries
        /\ req[r].query_code = "001"
        /\ pc[r] = "done"
        /\ resp[r].status = 400

\* ------------------------------------------------------------------ C13
\* C13: the 500 response for a database error has one generic body whatever
\* the underlying error: two requests that failed with database errors
\* have identical responses.
C13_GenericErrorMessage ==
    \A r, q \in Slots :
        (/\ resp[r].status = 500 /\ resp[r] # Unhandled
         /\ resp[q].status = 500 /\ resp[q] # Unhandled)
            => resp[r] = resp[q]

\* ------------------------------------------------------------------ C14
\* C14: a request with query_code "001" (login; here with an existing
\* username and a wrong hash) ends with the response {"code": "002"} and
\* with nothing committed.
C14_LoginWrongHash ==
    \A r \in Slots :
        (pc[r] = "done" /\ req[r].query_code = "001")
            => resp[r].body = "code 002" /\ ~committed[r]

\* ------------------------------------------------------------------ C15
\* C15 as claimed: /query is let through to the handler only when the
\* x-api-key header equals the configured key exactly; every other /query
\* exchange is answered 403; /health is answered 200 whatever the key.
C15_ExactKeyOnly ==
    /\ api_pc = "run_coded_query"
          => /\ API_KEY.set /\ api_req.sent_key.set
             /\ api_req.sent_key.text = API_KEY.text
    /\ (api_pc = "sent" /\ api_req.path = "/query") => api_resp.status = 403
    /\ (api_pc = "sent" /\ api_req.path = "/health") => api_resp.status = 200

\* C15 amended: /query is let through exactly when the configured key and
\* the header are both present and non-empty and are equal after surrounding
\* whitespace is stripped from each; every other /query exchange is
\* answered 403; /health is answered 200 whatever the key.
C15_StrippedKeyOnly ==
    /\ api_pc = "run_coded_query"
          => /\ API_KEY.set /\ API_KEY.text # <<>>
             /\ api_req.sent_key.set /\ api_req.sent_key.text # <<>>
             /\ Strip(api_req.sent_key.text) = Strip(API_KEY.text)
    /\ (api_pc = "sent" /\ api_req.path = "/query")
          => /\ api_resp.status = 403
             /\ \/ ~API_KEY.set \/ API_KEY.text = <<>>
                \/ ~api_req.sent_key.set \/ api_req.sent_key.text = <<>>
                \/ Strip(api_req.sent_key.text) # Strip(API_KEY.text)
    /\ (api_pc = "sent" /\ api_req.path = "/health") => api_resp.status = 200

\* a header that differs from the configured key by surrounding whitespace
\* only has been let through
C15_Witness ==
    /\ api_pc = "run_coded_query"
    /\ api_req.sent_key.text # API_KEY.text
    /\ Strip(API_KEY.text) = <<"k">>

\* ------------------------------------------------------------------ C16
\* positions before the audit put of a request: in get_user_lock, waiting in
\* acquire(), or holding the lock before the registry lookup
BeforePut == {"get_user_lock", "create", "return", "acquire", "lookup"}
\* positions after the audit put of a request whose code is registered
AfterPut == {"pool", "execute", "classify", "cleanup", "release", "done"}

Registered(r) == req[r].query_code \in DOMAIN QUERY_DICT

\* C16 as claimed: a request with a registered code has enqueued its audit
\* record before it asks for its identity's lock, so the records ever
\* enqueued are at least as many as the requests in flight that have reached
\* acquire().
C16_EnqueueBeforeAcquire ==
    Cardinality(enqueued) >=
        Cardinality({r \in Slots : /\ Registered(r)
                                   /\ pc[r] \in {"acquire"} \cup LockedPcs \cup {"done"}})

\* C16 amended: the identity lock is acquired before the audit record is
\* enqueued.  The order in a request is get the lock object, acquire, look
\* the code up, enqueue, database work, cleanup, release.  A request that
\* waits in acquire() or has not passed the lookup has enqueued nothing;
\* every request with a registered code past the lookup has enqueued; and a
\* record is enqueued only in the step from the lookup to the pool test, by
\* a request that holds its lock and has done no database work.
C16_AcquireBeforeEnqueue ==
    /\ [](Cardinality(enqueued) <=
            served - Cardinality({r \in Slots : pc[r] \in BeforePut}))
    /\ [](Cardinality(enqueued) >=
            Cardinality({r \in Slots : Registered(r) /\ pc[r] \in AfterPut}))
    /\ [][enqueued' # enqueued =>
            \E r \in Slots :
                /\ pc[r] = "lookup" /\ pc'[r] = "pool"
                /\ locks[req[r].user_id][user_lock[r]]
                /\ ~conn[r] /\ ~executed[r]
                /\ enqueued' = enqueued \cup {Cardinality(enqueued) + 1}]_vars

\* a request with a registered code waits in acquire() for the lock its
\* identity's other request holds, and only that other request's record
\* has been enqueued
C16_Witness ==
    \E r, q \in Slots :
        /\ SameIdentity(r, q)
        /\ Registered(r) /\ Registered(q)
        /\ pc[r] = "acquire" /\ ~LockFree(req[r].user_id, user_lock[r])
        /\ pc[q] = "execute"
        /\ served = 2 /\ Cardinality(enqueued) = 1

\* ------------------------------------------------------------------ C17
\* an append attempt that the sink fails
AppendFails == wpc = "append" /\ wpc' = "sleep"

C18_CommitByKeyword ==
    \A r \in Slots :
        /\ committed[r] =>
              /\ executed[r] /\ Registered(r)
              /\ ~IsSelect(QUERY_DICT[req[r].query_code])
        /\ resp[r] = Success("rows_affected") => committed[r]
        /\ resp[r] = Success("data") =>
              /\ executed[r] /\ ~committed[r]
              /\ IsSelect(QUERY_DICT[req[r].query_code])
        /\ (resp[r].status = 500 /\ resp[r] # Unhandled) => ~committed[r]
        /\ (/\ pc[r] \in {"cleanup", "release"}
            /\ executed[r] /\ resp[r] # DatabaseError("execute")) =>
              IF IsSelect(QUERY_DICT[req[r].query_code])
              THEN resp[r] \in {Success("data"), DatabaseError("fetchall")}
              ELSE /\ resp[r] \in {Success("rows_affected"), DatabaseError("commit")}
                   /\ committed[r] <=> resp[r] = Success("rows_affected")

\* one request has committed its delete template (written with a leading
\* newline and a capital) and returned rows_affected, while another has
\* returned the rows of its select template (leading blank, mixed case)
\* with nothing committed
C18_Witness ==
    \E r, q \in Slots :
        /\ pc[r] = "release" /\ req[r].query_code = "Q3"
        /\ committed[r] /\ resp[r] = Success("rows_affected")
        /\ pc[q] = "release" /\ req[q].query_code = "001"
        /\ ~committed[q] /\ resp[q] = Success("data")

\* ------------------------------------------------------------------ C19
\* the worker thread is alive: it has a step to take or is polling the queue
WorkerRunning == wpc # "exited"

\* the request can take its next step
CanStep(r) == ENABLED Request(r)

Queued(n) == Cardinality({i \in 1..Len(log_queue) : log_queue[i].id = n})

OnSheet(n) == IF n \in sheet THEN 1 ELSE 0

\* C20 as claimed: every enqueued record is in exactly one place (once in
\* the queue, held by the worker, or on the sheet), and the count of
\* unfinished tasks is the number queued plus the number held.  Stated for
\* whichever way "held" is counted: h is 1 or 0 while the worker's log_item
\* is bound, and 0 otherwise.
C20_ExactlyOnePlace ==
    \E h \in {0, 1} :
        /\ h = 1 => log_item # NoItem
        /\ \A n \in enqueued :
              Queued(n) + (IF log_item.id = n THEN h ELSE 0) + OnSheet(n) = 1
        /\ unfinished_tasks = Len(log_queue) + h

\* C20 amended: every enqueued record is in the queue, held by the worker
\* or on the sheet; it is in the queue at most once and never both in the
\* queue and on the sheet; it is in two places only while the worker, having
\* put it back or appended it, has not yet called task_done for it.  Nothing
\* else is in the queue, with the worker or on the sheet.  The count of
\* unfinished tasks is the number queued plus one while the worker's
\* log_item is bound.
C20_RecordsConserved ==
    /\ \A n \in enqueued :
          /\ Queued(n) <= 1
          /\ Queued(n) + OnSheet(n) <= 1
          /\ Queued(n) = 1 \/ log_item.id = n \/ n \in sheet
          /\ (log_item.id = n /\ Queued(n) + OnSheet(n) = 1) => wpc = "task_done"
    /\ \A i \in 1..Len(log_queue) : log_queue[i].id \in enqueued
    /\ log_item # NoItem => log_item.id \in enqueued
    /\ sheet \subseteq enqueued
    /\ unfinished_tasks = Len(log_queue) + (IF log_item # NoItem THEN 1 ELSE 0)

\* the worker has put a record back after a failed append and not yet called
\* task_done: the record is in the queue, behind another one, and is still
\* the worker's log_item
C20_Witness ==
    /\ wpc = "task_done"
    /\ Len(log_queue) = 2
    /\ log_queue[2].id = log_item.id
    /\ unfinished_tasks = 3

====
